---------------------------- MODULE Spec2Model ----------------------------
(***************************************************************************)
(* Secure middleware service: POST /secure-inquiry.                        *)
(*                                                                         *)
(*   lib/sanitizer.js      sanitizeMessage        (src/src/lib/sanitizer.js)*)
(*   lib/circuitBreaker.js CircuitBreaker         (src/unnamed/part_000)   *)
(*   lib/auditLog.js       appendAuditRecord      (src/unnamed/part_001)   *)
(*   lib/crypto.js + routes/secureInquiry.js      (src/unnamed/part_002)   *)
(*                                                                         *)
(* Text is a sequence of one-character strings.  Node runs one callback at *)
(* a time, so every action below is one run-to-completion piece of a       *)
(* handler: from its entry or resumption to its next await.                *)
(*                                                                         *)
(* Two schedulers are specified.  Spec is Node's event loop: the promise   *)
(* reactions a callback leaves behind (the queued audit task, the handler  *)
(* resuming after its await) all run before the next timer or request      *)
(* callback, and before the clock moves.  SpecAnyOrder lets a request or a *)
(* timer callback run at every await instead, which is all the source      *)
(* text alone promises; the behaviours of Spec are among its behaviours.   *)
(***************************************************************************)
EXTENDS Integers, Sequences, FiniteSets, TLC

(***************************************************************************)
(* Bounds of the model.                                                    *)
(***************************************************************************)
\* requests the server receives in one run
MaxRequests == 5
\* storage calls (readFileSync / writeFileSync) that throw in one run
MaxFaults == 1
\* audit tasks queued and not yet run, under SpecAnyOrder
MaxQueued == 2
\* requests the server receives in one run of SpecAnyOrder
MaxAnyOrderRequests == 4
\* SpecBreaker: the largest failCount from which recordFailure() is still
\* called, and the time after which the clock no longer advances
MaxFailCount == 5
MaxNow == 64000
\* SpecLive: the number of requests that arrive
MaxLiveRequests == 4

(***************************************************************************)
(* Characters and the character classes of the regular expressions.       *)
(***************************************************************************)
Digits == {"0", "1", "2", "3", "4", "5", "6", "7", "8", "9"}

Letters ==
    {"a", "b", "c", "d", "e", "f", "g", "h", "i", "j", "k", "l", "m",
     "n", "o", "p", "q", "r", "s", "t", "u", "v", "w", "x", "y", "z",
     "A", "B", "C", "D", "E", "F", "G", "H", "I", "J", "K", "L", "M",
     "N", "O", "P", "Q", "R", "S", "T", "U", "V", "W", "X", "Y", "Z"}

\* \w
WordChars == Letters \cup Digits \cup {"_"}

\* \s
SpaceChars == {" ", "\t", "\n", "\r"}

\* [A-Za-z0-9._%+-]
EmailLocalChars == Letters \cup Digits \cup {".", "_", "%", "+", "-"}

\* [A-Za-z0-9.-]
EmailDomainChars == Letters \cup Digits \cup {".", "-"}

\* The replacement tags.  A tag is kept as one element of the text: it
\* begins with "<" and ends with ">", which are in none of the classes
\* above, and no later pattern can match inside it (it holds no digit and
\* no "@").
TagEmail == "<REDACTED: EMAIL>"
TagSSN == "<REDACTED: SSN>"
TagCreditCard == "<REDACTED: CREDIT_CARD>"

\* the character at position i, or "" outside the text
At(s, i) == IF i >= 1 /\ i <= Len(s) THEN s[i] ELSE ""

\* \b between positions i-1 and i
WordBoundary(s, i) == (At(s, i - 1) \in WordChars) # (At(s, i) \in WordChars)

\* s[i .. i+n-1] lies in the text and is made of characters of class
AllIn(s, i, n, class) == \A k \in i..(i + n - 1) : At(s, k) \in class

\* length of the longest run of characters of class starting at i
RECURSIVE RunLen(_, _, _)
RunLen(s, i, class) ==
    IF At(s, i) \in class THEN 1 + RunLen(s, i + 1, class) ELSE 0

(***************************************************************************)
(* sanitizeMessage: three global replaces, EMAIL then SSN then CREDIT_CARD. *)
(* Each XxxMatchLen(s, i) is the length of the match the pattern finds     *)
(* when it is tried at position i (0: no match there), with the greedy     *)
(* quantifiers and the backtracking of the regular expression engine.      *)
(***************************************************************************)
\* /\b[A-Za-z0-9._%+-]+@[A-Za-z0-9.-]+\.[A-Za-z]{2,}\b/
\* local part of n1 characters, "@", k domain characters, ".", m letters
EmailMatchLen(s, i) ==
    LET n1 == RunLen(s, i, EmailLocalChars)
        d == i + n1 + 1
        n2 == RunLen(s, d, EmailDomainChars)
        Tld(k) == {m \in 2..RunLen(s, d + k + 1, Letters) :
                       WordBoundary(s, d + k + 1 + m)}
        Ks == {k \in 1..n2 : At(s, d + k) = "." /\ Tld(k) # {}}
        MaxOf(S) == CHOOSE x \in S : \A y \in S : y <= x
    IN  IF /\ WordBoundary(s, i)
           /\ n1 >= 1
           /\ At(s, i + n1) = "@"
           /\ Ks # {}
        THEN n1 + 1 + MaxOf(Ks) + 1 + MaxOf(Tld(MaxOf(Ks)))
        ELSE 0

\* the SSN pattern without its closing \b
SSNMatchLenOpenEnd(s, i) ==
    LET d1 == IF At(s, i + 3) = "-" THEN 1 ELSE 0
        j == i + 3 + d1
        d2 == IF At(s, j + 2) = "-" THEN 1 ELSE 0
        l == j + 2 + d2
    IN  IF /\ WordBoundary(s, i)
           /\ AllIn(s, i, 3, Digits)
           /\ AllIn(s, j, 2, Digits)
           /\ AllIn(s, l, 4, Digits)
        THEN l + 4 - i
        ELSE 0

\* /\b\d{3}-?\d{2}-?\d{4}\b/
SSNMatchLen(s, i) ==
    LET d1 == IF At(s, i + 3) = "-" THEN 1 ELSE 0
        j == i + 3 + d1
        d2 == IF At(s, j + 2) = "-" THEN 1 ELSE 0
        l == j + 2 + d2
    IN  IF /\ WordBoundary(s, i)
           /\ AllIn(s, i, 3, Digits)
           /\ AllIn(s, j, 2, Digits)
           /\ AllIn(s, l, 4, Digits)
           /\ WordBoundary(s, l + 4)
        THEN l + 4 - i
        ELSE 0

\* /\b(?:\d{4}[-\s]?){3}\d{4}\b/
CCMatchLen(s, i) ==
    LET Sep(p) == IF At(s, p) \in ({"-"} \cup SpaceChars) THEN 1 ELSE 0
        g2 == i + 4 + Sep(i + 4)
        g3 == g2 + 4 + Sep(g2 + 4)
        g4 == g3 + 4 + Sep(g3 + 4)
    IN  IF /\ WordBoundary(s, i)
           /\ AllIn(s, i, 4, Digits)
           /\ AllIn(s, g2, 4, Digits)
           /\ AllIn(s, g3, 4, Digits)
           /\ AllIn(s, g4, 4, Digits)
           /\ WordBoundary(s, g4 + 4)
        THEN g4 + 4 - i
        ELSE 0

MatchLen(rule, s, i) ==
    CASE rule = "EMAIL" -> EmailMatchLen(s, i)
      [] rule = "SSN" -> SSNMatchLen(s, i)
      [] rule = "CREDIT_CARD" -> CCMatchLen(s, i)

\* String.prototype.replace with a /g pattern: scan from the left, replace
\* each match by the tag and continue after it
RECURSIVE ReplaceFrom(_, _, _, _)
ReplaceFrom(rule, tag, s, i) ==
    IF i > Len(s) THEN <<>>
    ELSE LET n == MatchLen(rule, s, i)
         IN  IF n > 0
             THEN <<tag>> \o ReplaceFrom(rule, tag, s, i + n)
             ELSE <<s[i]>> \o ReplaceFrom(rule, tag, s, i + 1)

sanitizeMessage(message) ==
    IF message = <<>> THEN message
    ELSE LET e == ReplaceFrom("EMAIL", TagEmail, message, 1)
             n == ReplaceFrom("SSN", TagSSN, e, 1)
         IN  ReplaceFrom("CREDIT_CARD", TagCreditCard, n, 1)

(***************************************************************************)
(* lib/crypto.js.  AES-256-GCM is a library primitive; it is modelled as a *)
(* stream cipher (GCM is counter mode: each byte is combined with a key    *)
(* stream that depends on the key, the IV and the position) with a tag     *)
(* over key, IV and ciphertext.  Text is encoded to bytes and back         *)
(* ('utf8'), and the blob is wrapped by the JSON / base64 encoding.        *)
(***************************************************************************)
\* the characters messages are written in, in the order of their byte codes
Alphabet ==
    <<"0", "1", "2", "3", "4", "5", "6", "7", "8", "9",
      "a", "b", "c", "d", "e", "f", "g", "h", "i", "j", "k", "l", "m",
      "n", "o", "p", "q", "r", "s", "t", "u", "v", "w", "x", "y", "z",
      " ", "-", ".", "@", "_">>

NumCodes == Len(Alphabet)

\* Buffer.from(text, 'utf8') and buffer.toString('utf8')
Utf8Encode(text) ==
    [k \in 1..Len(text) |->
        (CHOOSE c \in 1..NumCodes : Alphabet[c] = text[k]) - 1]

Utf8Decode(bytes) == [k \in 1..Len(bytes) |-> Alphabet[bytes[k] + 1]]

\* the key stream byte for position k
KeyStream(key, iv, k) == (7 * key + 3 * iv + k) % NumCodes

\* a cipher whose key stream is one position ahead of the decipher's
CipherUpdateShifted(key, iv, text) ==
    LET bytes == Utf8Encode(text)
    IN  [k \in 1..Len(bytes) |->
            (bytes[k] + KeyStream(key, iv, k + 1)) % NumCodes]

\* cipher.update(text, 'utf8', 'hex') + cipher.final('hex')
CipherUpdate(key, iv, text) ==
    LET bytes == Utf8Encode(text)
    IN  [k \in 1..Len(bytes) |-> (bytes[k] + KeyStream(key, iv, k)) % NumCodes]

\* decipher.update(ciphertext, 'hex', 'utf8') + decipher.final('utf8')
DecipherUpdate(key, iv, ciphertext) ==
    Utf8Decode([k \in 1..Len(ciphertext) |->
        (ciphertext[k] + NumCodes - KeyStream(key, iv, k)) % NumCodes])

RECURSIVE SumSeq(_)
SumSeq(q) == IF q = <<>> THEN 0 ELSE Head(q) + SumSeq(Tail(q))

\* cipher.getAuthTag()
AuthTag(key, iv, ciphertext) ==
    (31 * key + 17 * iv + SumSeq(ciphertext) + Len(ciphertext)) % 251

\* Buffer.from(JSON.stringify(blob)).toString('base64') and its inverse
Base64Json(blob) == [base64 |-> blob]

ParseBase64Json(str) == str.base64

\* encrypt(text), with the key of getEncryptionKey() and the IV of
\* crypto.randomBytes(12)
encrypt(key, iv, text) ==
    LET encrypted == CipherUpdate(key, iv, text)
    IN  Base64Json([iv |-> iv,
                    ciphertext |-> encrypted,
                    authTag |-> AuthTag(key, iv, encrypted)])

\* the value decrypt throws on a tag mismatch
AuthError == <<"Unsupported state or unable to authenticate data">>

\* decrypt(encryptedBase64): final() throws unless the tag verifies
decrypt(key, encryptedBase64) ==
    LET blob == ParseBase64Json(encryptedBase64)
    IN  IF AuthTag(key, blob.iv, blob.ciphertext) = blob.authTag
        THEN DecipherUpdate(key, blob.iv, blob.ciphertext)
        ELSE AuthError

(***************************************************************************)
(* lib/circuitBreaker.js.  A breaker value is the three fields of the      *)
(* singleton; t is Date.now() at the call.                                 *)
(***************************************************************************)
CLOSED == "CLOSED"
OPEN == "OPEN"
HALF_OPEN == "HALF_OPEN"

FAILURE_THRESHOLD == 3
COOLDOWN_MS == 30000

\* canExecute() comparing with > where the code has >=
canExecuteStrict(cb, t) ==
    IF cb.state = CLOSED
    THEN [ret |-> TRUE, cb |-> cb]
    ELSE IF cb.state = OPEN
         THEN IF t > cb.nextAttempt
              THEN [ret |-> TRUE, cb |-> [cb EXCEPT !.state = HALF_OPEN]]
              ELSE [ret |-> FALSE, cb |-> cb]
         ELSE [ret |-> TRUE, cb |-> cb]

\* canExecute() refusing every call made while HALF_OPEN
canExecuteNoSecondProbe(cb, t) ==
    IF cb.state = CLOSED
    THEN [ret |-> TRUE, cb |-> cb]
    ELSE IF cb.state = OPEN
         THEN IF t >= cb.nextAttempt
              THEN [ret |-> TRUE, cb |-> [cb EXCEPT !.state = HALF_OPEN]]
              ELSE [ret |-> FALSE, cb |-> cb]
         ELSE [ret |-> FALSE, cb |-> cb]

\* canExecute() that lets no probe through once the breaker is OPEN
canExecuteStaysOpen(cb, t) ==
    IF cb.state = OPEN
    THEN [ret |-> FALSE, cb |-> cb]
    ELSE [ret |-> TRUE, cb |-> cb]

\* canExecute(): the value returned and the breaker afterwards
canExecute(cb, t) ==
    IF cb.state = CLOSED
    THEN [ret |-> TRUE, cb |-> cb]
    ELSE IF cb.state = OPEN
         THEN IF t >= cb.nextAttempt
              THEN [ret |-> TRUE, cb |-> [cb EXCEPT !.state = HALF_OPEN]]
              ELSE [ret |-> FALSE, cb |-> cb]
         ELSE [ret |-> TRUE, cb |-> cb]

\* recordSuccess() that closes without resetting the count
recordSuccessKeepsCount(cb) == [cb EXCEPT !.state = CLOSED]

recordSuccess(cb) == [cb EXCEPT !.failCount = 0, !.state = CLOSED]

\* recordFailure() comparing with > where the code has >=
recordFailureLate(cb, t) ==
    IF cb.state = HALF_OPEN
    THEN [cb EXCEPT !.state = OPEN, !.nextAttempt = t + COOLDOWN_MS]
    ELSE IF cb.failCount + 1 > FAILURE_THRESHOLD
         THEN [cb EXCEPT !.failCount = cb.failCount + 1,
                         !.state = OPEN,
                         !.nextAttempt = t + COOLDOWN_MS]
         ELSE [cb EXCEPT !.failCount = cb.failCount + 1]

\* recordFailure() that re-opens from HALF_OPEN without a new nextAttempt
recordFailureStaleWindow(cb, t) ==
    IF cb.state = HALF_OPEN
    THEN [cb EXCEPT !.state = OPEN]
    ELSE IF cb.failCount + 1 >= FAILURE_THRESHOLD
         THEN [cb EXCEPT !.failCount = cb.failCount + 1,
                         !.state = OPEN,
                         !.nextAttempt = t + COOLDOWN_MS]
         ELSE [cb EXCEPT !.failCount = cb.failCount + 1]

recordFailure(cb, t) ==
    IF cb.state = HALF_OPEN
    THEN [cb EXCEPT !.state = OPEN, !.nextAttempt = t + COOLDOWN_MS]
    ELSE IF cb.failCount + 1 >= FAILURE_THRESHOLD
         THEN [cb EXCEPT !.failCount = cb.failCount + 1,
                         !.state = OPEN,
                         !.nextAttempt = t + COOLDOWN_MS]
         ELSE [cb EXCEPT !.failCount = cb.failCount + 1]

getState(cb) == [state |-> cb.state, failCount |-> cb.failCount]

(***************************************************************************)
(* lib/auditLog.js.  The content of data/audit-log.json is either the      *)
(* JSON text of an array of records or text that JSON.parse rejects.       *)
(***************************************************************************)
JsonStringify(data) == [tag |-> "json", val |-> data]

\* text that is not JSON (a truncated or damaged file)
Garbage == [tag |-> "garbage", val |-> <<>>]

JsonParse(content) ==
    IF content.tag = "json"
    THEN [ok |-> TRUE, val |-> content.val]
    ELSE [ok |-> FALSE, val |-> <<>>]

\* a task that leaves a file it cannot parse as it is
AppendTaskKeepsCorrupt(fileContent, record) ==
    LET parsed == JsonParse(fileContent)
    IN  IF parsed.ok
        THEN JsonStringify(Append(parsed.val, record))
        ELSE fileContent

\* a task that pushes the record twice
AppendTaskTwice(fileContent, record) ==
    LET parsed == JsonParse(fileContent)
        data == IF parsed.ok THEN parsed.val ELSE <<>>
    IN  JsonStringify(Append(Append(data, record), record))

\* a task that writes the record alone, without the data it has read
AppendTaskOverwrite(fileContent, record) == JsonStringify(<<record>>)

\* the body of the queued task when no storage call throws: the new
\* content of the file, from the content read and the record
AppendTask(fileContent, record) ==
    LET parsed == JsonParse(fileContent)
        data == IF parsed.ok THEN parsed.val ELSE <<>>
    IN  JsonStringify(Append(data, record))

(***************************************************************************)
(* routes/secureInquiry.js: the values of a request and of a response.     *)
(***************************************************************************)
JsString(chars) == [type |-> "string", chars |-> chars]
JsUndefined == [type |-> "undefined", chars |-> <<>>]
\* a value that is truthy and not a string, such as the number 42
JsNumber == [type |-> "number", chars |-> <<>>]

\* String.prototype.trim
RECURSIVE TrimLeft(_)
TrimLeft(q) ==
    IF q # <<>> /\ Head(q) \in SpaceChars THEN TrimLeft(Tail(q)) ELSE q

RECURSIVE TrimRight(_)
TrimRight(q) ==
    IF q # <<>> /\ q[Len(q)] \in SpaceChars
    THEN TrimRight(SubSeq(q, 1, Len(q) - 1))
    ELSE q

Trim(q) == TrimRight(TrimLeft(q))

\* a validation that does not trim: !x || typeof x !== 'string'
InvalidNoTrim(x) ==
    \/ x.type = "undefined"
    \/ x.type = "string" /\ x.chars = <<>>
    \/ x.type # "string"

\* !x || typeof x !== 'string' || !x.trim()
Invalid(x) ==
    \/ x.type = "undefined"
    \/ x.type = "string" /\ x.chars = <<>>
    \/ x.type # "string"
    \/ Trim(x.chars) = <<>>

AI_DELAY_MS == 2000

GeneratedAnswer == "Generated Answer."

AuditRecord(id, userId, enc, red, aiResult, circuitState) ==
    [id |-> id,
     userId |-> userId,
     originalMessageEncrypted |-> enc,
     redactedMessage |-> red,
     aiResult |-> aiResult,
     circuitState |-> circuitState]

NoState == [state |-> "-", failCount |-> 0]

NoResponse ==
    [status |-> 0, error |-> "", userId |-> JsUndefined,
     redactedMessage |-> <<>>, answer |-> "", circuitBreaker |-> NoState]

ErrorResponse(status, error) ==
    [NoResponse EXCEPT !.status = status, !.error = error]

JsonResponse(status, userId, red, answer, cbState) ==
    [status |-> status, error |-> "", userId |-> userId,
     redactedMessage |-> red, answer |-> answer, circuitBreaker |-> cbState]

(***************************************************************************)
(* The inputs of the model.                                                *)
(***************************************************************************)
\* the requests, numbered in the order of their arrival
Reqs == 1..MaxRequests

\* the environment of a run: an AUDIT_ENCRYPTION_KEY that passes
\* getEncryptionKey(), and the seed of the generator behind
\* crypto.randomBytes
Environments == {[key |-> 3, seed |-> 0], [key |-> 5, seed |-> 1]}

\* crypto.randomBytes(12): the n-th draw of the generator
RandomBytes(sd, n) == (sd + 2 * n) % 5

PlainMessage == <<"h", "i">>

SsnMessage ==
    <<"i", "d", " ", "1", "2", "3", "-", "4", "5", "-", "6", "7", "8", "9">>

ValidUserId == JsString(<<"u", "1">>)

\* the requests that pass validation: a message with an SSN whose
\* downstream call is forced to fail (x-mock-ai-fail: true), and a plain
\* message whose call succeeds
ValidRequests ==
    {[userId |-> ValidUserId, message |-> JsString(SsnMessage),
      forceFail |-> TRUE],
     [userId |-> ValidUserId, message |-> JsString(PlainMessage),
      forceFail |-> FALSE]}

\* the requests that do not: userId or message missing, not a string,
\* empty, or blank
InvalidRequests ==
    {[userId |-> u, message |-> JsString(PlainMessage), forceFail |-> FALSE] :
        u \in {JsString(<<>>), JsString(<<" ">>), JsUndefined, JsNumber}}
    \cup
    {[userId |-> ValidUserId, message |-> m, forceFail |-> FALSE] :
        m \in {JsString(<<>>), JsString(<<" ", " ">>), JsUndefined, JsNumber}}

RequestInputs == ValidRequests \cup InvalidRequests

(***************************************************************************)
(* The state.                                                              *)
(***************************************************************************)
VARIABLES
    \* circuitBreaker: this.state, this.failCount, this.nextAttempt
    state, failCount, nextAttempt,
    \* Date.now(), process.env.AUDIT_ENCRYPTION_KEY, the random generator
    now, key, seed,
    \* the number of the next request to arrive (uuidv4() is modelled by it)
    nextId,
    \* per request: where its handler is, its locals, what it sent; with the
    \* locals, as history, the calls the handler has made so far in their
    \* order (ops) and the argument it gave to mockAiCall (aiArg)
    pc, frame, res,
    \* data/audit-log.json, the tasks chained on writeQueue and not yet
    \* run, the requests in progress whose task called console.error
    file, writeQueue, errLog,
    \* storage calls that have thrown
    faults,
    \* history: failures recorded since the last recordSuccess()
    consec,
    \* history: when OPEN was entered (-1 when not OPEN), and whether a
    \* result was recorded since
    openedAt, recSinceOpen,
    \* history, per request in progress: the phase the breaker was in when
    \* canExecute() returned true to it, or "refused" when it returned false
    admittedIn,
    \* history: getState() right after the request's own canExecute()
    \* (skipped path) or recordSuccess()/recordFailure() (executed path)
    decided,
    \* history: the ids in the order of their appendAuditRecord calls, and
    \* the requests in progress whose task found the file unparseable
    calls, recovered

breakerVars == <<state, failCount, nextAttempt>>
envVars == <<now, key, seed>>
handlerVars == <<nextId, pc, frame, res>>
auditVars == <<file, writeQueue, errLog, faults, calls, recovered>>
historyVars == <<consec, openedAt, recSinceOpen, admittedIn, decided>>
vars == <<breakerVars, envVars, handlerVars, auditVars, historyVars>>

Breaker ==
    [state |-> state, failCount |-> failCount, nextAttempt |-> nextAttempt]

SetBreaker(cb) ==
    /\ state' = cb.state
    /\ failCount' = cb.failCount
    /\ nextAttempt' = cb.nextAttempt

NoFrame ==
    [userId |-> JsUndefined, message |-> JsUndefined,
     forceFail |-> FALSE, due |-> -1, branch |-> "-",
     redactedMessage |-> <<>>, encryptedMessage |-> Base64Json(<<>>),
     cbState |-> NoState, aiAnswer |-> "", errorOccurred |-> FALSE,
     ops |-> <<>>, aiArg |-> <<>>]

Init ==
    /\ state = CLOSED
    /\ failCount = 0
    /\ nextAttempt = 0
    /\ now = 0
    /\ \E e \in Environments : key = e.key /\ seed = e.seed
    /\ nextId = 1
    /\ pc = [r \in Reqs |-> "new"]
    /\ frame = [r \in Reqs |-> NoFrame]
    /\ res = [r \in Reqs |-> NoResponse]
    /\ file \in {JsonStringify(<<>>), Garbage}
    /\ writeQueue = <<>>
    /\ errLog = {}
    /\ faults = 0
    /\ consec = 0
    /\ openedAt = -1
    /\ recSinceOpen = FALSE
    /\ admittedIn = [r \in Reqs |-> "-"]
    /\ decided = [r \in Reqs |-> NoState]
    /\ calls = <<>>
    /\ recovered = {}

\* no promise reaction is waiting to run: no audit task is queued and no
\* handler is between the resolution of its awaited append and its return
Quiescent ==
    /\ writeQueue = <<>>
    /\ \A r \in Reqs : pc[r] \notin {"audit", "resume", "done", "rejected"}

\* the requests whose mockAiCall timer is running
InCall == {r \in Reqs : pc[r] = "ai"}

(***************************************************************************)
(* History bookkeeping of a breaker call that leaves the breaker as cb2.   *)
(***************************************************************************)
TrackOpen(cb2, isRecord) ==
    /\ openedAt' = IF cb2.state = OPEN
                   THEN IF state = OPEN THEN openedAt ELSE now
                   ELSE -1
    /\ recSinceOpen' = IF cb2.state = OPEN /\ state = OPEN
                       THEN recSinceOpen \/ isRecord
                       ELSE FALSE

(***************************************************************************)
(* appendAuditRecord(record): chains the task on writeQueue and returns    *)
(* the new tail, which the handler awaits.                                 *)
(***************************************************************************)
Enqueue(queue, r, record) == Append(queue, [req |-> r, record |-> record])

(***************************************************************************)
(* router.post('/secure-inquiry'), from the entry to the first await.      *)
(***************************************************************************)
\* 1. validation failed: 400 and nothing else
Reject(r, error) ==
    /\ pc' = [pc EXCEPT ![r] = "rejected"]
    /\ res' = [res EXCEPT ![r] = ErrorResponse(400, error)]
    /\ UNCHANGED <<nextId, breakerVars, frame, auditVars, historyVars>>

\* the calls of the circuit-open branch up to its await, in their order
BusyOps ==
    <<"canExecute", "getState", "sanitizeMessage", "encrypt",
      "appendAuditRecord">>

\* the calls of the normal flow up to the await of mockAiCall
AdmitOps == <<"canExecute", "sanitizeMessage", "encrypt", "mockAiCall">>

\* the calls of the normal flow after mockAiCall has settled
SettleOps(forceFail) ==
    <<IF forceFail THEN "recordFailure" ELSE "recordSuccess",
      "getState", "appendAuditRecord">>

\* the audit record of the circuit-open branch
BusyAuditRecord(id, userId, message, k, iv, st) ==
    AuditRecord(id, userId, encrypt(k, iv, message.chars),
                sanitizeMessage(message.chars), "Service Busy", st.state)

\* 2. canExecute() returned false, leaving the breaker as cb2: the record
\* is built and appended, and the handler awaits the append
CircuitOpen(r, userId, message, cb2) ==
    LET st == getState(cb2)
        iv == RandomBytes(seed, r)
        auditRecord == BusyAuditRecord(r, userId, message, key, iv, st)
    IN  /\ nextId' = nextId + 1
        /\ SetBreaker(cb2)
        /\ TrackOpen(cb2, FALSE)
        /\ pc' = [pc EXCEPT ![r] = "audit"]
        /\ frame' = [frame EXCEPT ![r] =
               [NoFrame EXCEPT !.userId = userId,
                               !.message = message,
                               !.branch = "busy",
                               !.redactedMessage = auditRecord.redactedMessage,
                               !.encryptedMessage =
                                   auditRecord.originalMessageEncrypted,
                               !.cbState = st,
                               !.ops = BusyOps]]
        /\ writeQueue' = Enqueue(writeQueue, r, auditRecord)
        /\ calls' = Append(calls, r)
        /\ decided' = [decided EXCEPT ![r] = getState(cb2)]
        /\ admittedIn' = [admittedIn EXCEPT ![r] = "refused"]
        /\ UNCHANGED <<res, file, errLog, faults, recovered, consec>>

\* a normal flow that gives mockAiCall the original message
AdmitSendsOriginal(r, userId, message, forceFail, cb2) ==
    /\ nextId' = nextId + 1
    /\ SetBreaker(cb2)
    /\ TrackOpen(cb2, FALSE)
    /\ pc' = [pc EXCEPT ![r] = "ai"]
    /\ frame' = [frame EXCEPT ![r] =
           [NoFrame EXCEPT !.userId = userId,
                           !.message = message,
                           !.forceFail = forceFail,
                           !.due = now + AI_DELAY_MS,
                           !.branch = "normal",
                           !.redactedMessage = sanitizeMessage(message.chars),
                           !.encryptedMessage =
                               encrypt(key, RandomBytes(seed, r),
                                       message.chars),
                           !.ops = AdmitOps,
                           !.aiArg = message.chars]]
    /\ admittedIn' = [admittedIn EXCEPT ![r] = cb2.state]
    /\ UNCHANGED <<res, auditVars, consec, decided>>

\* 3. canExecute() returned true: redact, encrypt, start mockAiCall (a
\* timer of AI_DELAY_MS) and await it
Admit(r, userId, message, forceFail, cb2) ==
    /\ nextId' = nextId + 1
    /\ SetBreaker(cb2)
    /\ TrackOpen(cb2, FALSE)
    /\ pc' = [pc EXCEPT ![r] = "ai"]
    /\ frame' = [frame EXCEPT ![r] =
           [NoFrame EXCEPT !.userId = userId,
                           !.message = message,
                           !.forceFail = forceFail,
                           !.due = now + AI_DELAY_MS,
                           !.branch = "normal",
                           !.redactedMessage = sanitizeMessage(message.chars),
                           !.encryptedMessage =
                               encrypt(key, RandomBytes(seed, r),
                                       message.chars),
                           !.ops = AdmitOps,
                           !.aiArg = sanitizeMessage(message.chars)]]
    /\ admittedIn' = [admittedIn EXCEPT ![r] = cb2.state]
    /\ UNCHANGED <<res, auditVars, consec, decided>>

\* a request arrives and its handler runs to its first await; r is the
\* number it gets if it passes validation (a request that does not leaves
\* no trace, and r is given to the next one)
ReceiveStep(r, inputs) ==
    /\ r = nextId
    /\ pc[r] = "new"
    /\ UNCHANGED envVars
    /\ \E req \in inputs :
         IF Invalid(req.userId)
         THEN Reject(r, "userId is required and must be a non-empty string")
         ELSE IF Invalid(req.message)
         THEN Reject(r, "message is required and must be a non-empty string")
         ELSE LET c == canExecute(Breaker, now)
              IN  IF ~c.ret
                  THEN CircuitOpen(r, req.userId, req.message, c.cb)
                  ELSE Admit(r, req.userId, req.message, req.forceFail, c.cb)

(***************************************************************************)
(* The timer of mockAiCall fires and the handler resumes: the result is    *)
(* recorded in the breaker, the state captured, the record appended.       *)
(* The timers all run for AI_DELAY_MS, so they fire in the order they      *)
(* were started.                                                           *)
(***************************************************************************)
\* a try / catch that records the opposite result
RecordResultSwapped(cb, forceFail, t) ==
    IF forceFail THEN recordSuccess(cb) ELSE recordFailure(cb, t)

\* the breaker after the try / catch around the awaited call
RecordResult(cb, forceFail, t) ==
    IF forceFail THEN recordFailure(cb, t) ELSE recordSuccess(cb)

\* the audit record of the normal flow
NormalAuditRecord(id, f, cbState) ==
    AuditRecord(id, f.userId, f.encryptedMessage, f.redactedMessage,
                IF f.forceFail THEN "Error: AI call failed"
                ELSE GeneratedAnswer,
                cbState.state)

\* a handler that reads getState() before it records the result
AiSettleStepCapturesBefore(r) ==
    /\ pc[r] = "ai"
    /\ now >= frame[r].due
    /\ \A q \in InCall : q >= r
    /\ LET f == frame[r]
           cb2 == RecordResult(Breaker, f.forceFail, now)
           cbState == getState(Breaker)
       IN  /\ SetBreaker(cb2)
           /\ TrackOpen(cb2, TRUE)
           /\ consec' = IF f.forceFail THEN consec + 1 ELSE 0
           /\ frame' = [frame EXCEPT ![r] =
                  [f EXCEPT !.cbState = cbState,
                            !.errorOccurred = f.forceFail,
                            !.aiAnswer = IF f.forceFail
                                         THEN "AI Service Error"
                                         ELSE GeneratedAnswer,
                            !.ops = f.ops \o SettleOps(f.forceFail)]]
           /\ writeQueue' = Enqueue(writeQueue, r, NormalAuditRecord(r, f, cbState))
           /\ calls' = Append(calls, r)
           /\ decided' = [decided EXCEPT ![r] = getState(cb2)]
    /\ pc' = [pc EXCEPT ![r] = "audit"]
    /\ UNCHANGED <<envVars, nextId, res, file, errLog, faults, recovered,
                   admittedIn>>

AiSettleStep(r) ==
    /\ pc[r] = "ai"
    /\ now >= frame[r].due
    /\ \A q \in InCall : q >= r
    /\ LET f == frame[r]
           cb2 == RecordResult(Breaker, f.forceFail, now)
           cbState == getState(cb2)
       IN  /\ SetBreaker(cb2)
           /\ TrackOpen(cb2, TRUE)
           /\ consec' = IF f.forceFail THEN consec + 1 ELSE 0
           /\ frame' = [frame EXCEPT ![r] =
                  [f EXCEPT !.cbState = cbState,
                            !.errorOccurred = f.forceFail,
                            !.aiAnswer = IF f.forceFail
                                         THEN "AI Service Error"
                                         ELSE GeneratedAnswer,
                            !.ops = f.ops \o SettleOps(f.forceFail)]]
           /\ writeQueue' = Enqueue(writeQueue, r, NormalAuditRecord(r, f, cbState))
           /\ calls' = Append(calls, r)
           /\ decided' = [decided EXCEPT ![r] = getState(cb2)]
    /\ pc' = [pc EXCEPT ![r] = "audit"]
    /\ UNCHANGED <<envVars, nextId, res, file, errLog, faults, recovered,
                   admittedIn>>

\* a task whose storage error rejects its promise: the handler that
\* awaits it is not resumed
RunWriteTaskRejects ==
    /\ writeQueue # <<>>
    /\ LET task == Head(writeQueue)
           id == task.record.id
       IN  /\ writeQueue' = Tail(writeQueue)
           /\ \E outcome \in {"ok", "readThrows", "writeThrows"} :
                CASE outcome = "ok" ->
                       /\ file' = AppendTask(file, task.record)
                       /\ recovered' = IF JsonParse(file).ok
                                       THEN recovered
                                       ELSE recovered \cup {id}
                       /\ UNCHANGED <<errLog, faults>>
                  [] outcome = "readThrows" ->
                       /\ faults < MaxFaults
                       /\ faults' = faults + 1
                       /\ errLog' = errLog \cup {id}
                       /\ UNCHANGED <<file, recovered>>
                  [] outcome = "writeThrows" ->
                       /\ faults < MaxFaults
                       /\ faults' = faults + 1
                       /\ errLog' = errLog \cup {id}
                       /\ file' \in {file, Garbage}
                       /\ recovered' = IF JsonParse(file).ok
                                       THEN recovered
                                       ELSE recovered \cup {id}
    /\ pc' = IF faults' = faults
             THEN [pc EXCEPT ![Head(writeQueue).req] = "resume"]
             ELSE pc
    /\ UNCHANGED <<breakerVars, envVars, nextId, frame, res, calls,
                   historyVars>>

(***************************************************************************)
(* The task at the head of writeQueue runs.  readFileSync or writeFileSync *)
(* may throw (at most MaxFaults times in a run); a write that throws has   *)
(* left the file as it was or truncated.  The task's promise resolves in   *)
(* every case, which resumes the handler that awaits it.                   *)
(***************************************************************************)
RunWriteTask ==
    /\ writeQueue # <<>>
    /\ LET task == Head(writeQueue)
           id == task.record.id
       IN  /\ writeQueue' = Tail(writeQueue)
           /\ pc' = [pc EXCEPT ![task.req] = "resume"]
           /\ \E outcome \in {"ok", "readThrows", "writeThrows"} :
                CASE outcome = "ok" ->
                       /\ file' = AppendTask(file, task.record)
                       /\ recovered' = IF JsonParse(file).ok
                                       THEN recovered
                                       ELSE recovered \cup {id}
                       /\ UNCHANGED <<errLog, faults>>
                  [] outcome = "readThrows" ->
                       /\ faults < MaxFaults
                       /\ faults' = faults + 1
                       /\ errLog' = errLog \cup {id}
                       /\ UNCHANGED <<file, recovered>>
                  [] outcome = "writeThrows" ->
                       /\ faults < MaxFaults
                       /\ faults' = faults + 1
                       /\ errLog' = errLog \cup {id}
                       /\ file' \in {file, Garbage}
                       /\ recovered' = IF JsonParse(file).ok
                                       THEN recovered
                                       ELSE recovered \cup {id}
    /\ UNCHANGED <<breakerVars, envVars, nextId, frame, res, calls,
                   historyVars>>

(***************************************************************************)
(* The awaited append has resolved: the handler sends its response.        *)
(***************************************************************************)
\* a circuit-open response with the text of the downstream failure
BusyResponseUnavailable(f, cbNow) ==
    JsonResponse(503, f.userId, f.redactedMessage,
                 "AI Service Unavailable", f.cbState)

\* cbNow is getState() at the time of the response: the handler does not
\* read it
BusyResponse(f, cbNow) ==
    JsonResponse(200, f.userId, f.redactedMessage, "Service Busy", f.cbState)

\* a failure response with the text of the circuit-open branch
NormalResponseBusyText(f, cbNow) ==
    IF f.errorOccurred
    THEN JsonResponse(503, f.userId, f.redactedMessage, "Service Busy",
                      f.cbState)
    ELSE JsonResponse(200, f.userId, f.redactedMessage, f.aiAnswer, f.cbState)

NormalResponse(f, cbNow) ==
    IF f.errorOccurred
    THEN JsonResponse(503, f.userId, f.redactedMessage,
                      "AI Service Unavailable", f.cbState)
    ELSE JsonResponse(200, f.userId, f.redactedMessage, f.aiAnswer, f.cbState)

Respond(r) ==
    /\ pc[r] = "resume"
    /\ pc' = [pc EXCEPT ![r] = "done"]
    /\ res' = [res EXCEPT ![r] =
           IF frame[r].branch = "busy"
           THEN BusyResponse(frame[r], getState(Breaker))
           ELSE NormalResponse(frame[r], getState(Breaker))]
    /\ UNCHANGED <<breakerVars, envVars, nextId, frame, auditVars,
                   historyVars>>

\* the handler has returned: its locals and the response object are gone
Release(r) ==
    /\ pc[r] \in {"done", "rejected"}
    /\ pc' = [pc EXCEPT ![r] = IF pc[r] = "done" THEN "closed" ELSE "new"]
    /\ frame' = [frame EXCEPT ![r] = NoFrame]
    /\ res' = [res EXCEPT ![r] = NoResponse]
    /\ decided' = [decided EXCEPT ![r] = NoState]
    /\ admittedIn' = [admittedIn EXCEPT ![r] = "-"]
    /\ errLog' = errLog \ {r}
    /\ recovered' = recovered \ {r}
    /\ UNCHANGED <<breakerVars, envVars, nextId, file, writeQueue, faults,
                   calls, consec, openedAt, recSinceOpen>>

(***************************************************************************)
(* Time passes.  A timer fires when it is due, so the clock moves to the   *)
(* instant the earliest running timer is due and not past it (requests     *)
(* that arrive at that instant may still be handled before the timer's     *)
(* callback); with no timer running and the breaker OPEN, the clock moves  *)
(* to the end of the cooldown.                                             *)
(***************************************************************************)
MinDue == CHOOSE d \in {frame[r].due : r \in InCall} :
              \A r \in InCall : d <= frame[r].due

Tick ==
    /\ Quiescent
    /\ InCall # {}
    /\ now < MinDue
    /\ now' = MinDue
    /\ UNCHANGED <<breakerVars, key, seed, handlerVars, auditVars,
                   historyVars>>

CooldownElapses ==
    /\ Quiescent
    /\ InCall = {}
    /\ state = OPEN
    /\ \E target \in {openedAt + COOLDOWN_MS, nextAttempt} :
         /\ now < target
         /\ now' = target
    /\ UNCHANGED <<breakerVars, key, seed, handlerVars, auditVars,
                   historyVars>>

(***************************************************************************)
(* Spec: Node's event loop.  A request or timer callback starts only when  *)
(* no promise reaction is waiting.                                         *)
(***************************************************************************)
Receive(r) == Quiescent /\ ReceiveStep(r, RequestInputs)

AiSettle(r) == Quiescent /\ AiSettleStep(r)

Next ==
    \/ \E r \in Reqs : Receive(r)
    \/ \E r \in Reqs : AiSettle(r)
    \/ RunWriteTask
    \/ \E r \in Reqs : Respond(r)
    \/ \E r \in Reqs : Release(r)
    \/ Tick
    \/ CooldownElapses

Spec == Init /\ [][Next]_vars

(***************************************************************************)
(* SpecAnyOrder: the queued audit tasks run at any later time.  A request  *)
(* or timer callback may run while tasks are queued, so several            *)
(* appendAuditRecord calls are outstanding at once, made by handlers at    *)
(* different points of the pipeline.  The requests are the valid ones and  *)
(* the run ends before a cooldown has elapsed.                             *)
(***************************************************************************)
\* no handler is between the resolution of its awaited append and its
\* return, and fewer than MaxQueued tasks are queued
Resumed ==
    /\ \A r \in Reqs : pc[r] \notin {"resume", "done", "rejected"}
    /\ Len(writeQueue) < MaxQueued

ReceiveAnyOrder(r) ==
    /\ r <= MaxAnyOrderRequests
    /\ Resumed
    /\ ReceiveStep(r, ValidRequests)

AiSettleAnyOrder(r) == Resumed /\ AiSettleStep(r)

NextAnyOrder ==
    \/ \E r \in Reqs : ReceiveAnyOrder(r)
    \/ \E r \in Reqs : AiSettleAnyOrder(r)
    \/ RunWriteTask
    \/ \E r \in Reqs : Respond(r)
    \/ \E r \in Reqs : Release(r)
    \/ Tick

SpecAnyOrder == Init /\ [][NextAnyOrder]_vars

(***************************************************************************)
(* The steps the properties below speak of.                                *)
(***************************************************************************)
\* this step is request r's handler calling canExecute()
CallsCanExecute(r) == pc[r] = "new" /\ pc'[r] \in {"audit", "ai"}

\* canExecute() returned false / true to r in this step
Refused(r) == CallsCanExecute(r) /\ pc'[r] = "audit"
Admitted(r) == CallsCanExecute(r) /\ pc'[r] = "ai"

\* this step is r's handler recording the result of its downstream call
RecordsResult(r) == pc[r] = "ai" /\ pc'[r] = "audit"

\* the records of the file (none when it does not parse)
FileRecords == IF JsonParse(file).ok THEN JsonParse(file).val ELSE <<>>

\* the ids of a sequence of records or of queued tasks
RecordIds(records) == [k \in 1..Len(records) |-> records[k].id]
QueuedIds == [k \in 1..Len(writeQueue) |-> writeQueue[k].record.id]

\* how many times x occurs in the sequence q
Occurrences(q, x) == Cardinality({k \in 1..Len(q) : q[k] = x})

(***************************************************************************)
(* C1.  From CLOSED the breaker opens exactly at the third failure since   *)
(* the last recordSuccess() (or since the start): with fewer than three    *)
(* failures since then it is CLOSED and failCount is their number (so a    *)
(* success has reset it to 0 and the next failure makes it 1); with three  *)
(* or more it is no longer CLOSED.                                         *)
(***************************************************************************)
C1_ThirdFailureOpens ==
    /\ consec < FAILURE_THRESHOLD => state = CLOSED /\ failCount = consec
    /\ consec >= FAILURE_THRESHOLD => state \in {OPEN, HALF_OPEN}

\* the third failure has just opened the breaker, after an earlier
\* success had reset the count
C1_Witness ==
    /\ state = OPEN
    /\ consec = FAILURE_THRESHOLD
    /\ failCount = FAILURE_THRESHOLD
    /\ openedAt = now
    /\ \E k \in 1..Len(FileRecords) : FileRecords[k].aiResult = GeneratedAnswer
    /\ Len(FileRecords) > FAILURE_THRESHOLD

(***************************************************************************)
(* C2.  While the breaker is OPEN since openedAt and no result has been    *)
(* recorded since, a canExecute() call before openedAt + COOLDOWN_MS       *)
(* returns false and leaves state, failCount and nextAttempt unchanged,    *)
(* and a call at or after it returns true and makes the state HALF_OPEN.   *)
(***************************************************************************)
C2_CooldownGate ==
    [][\A r \in Reqs :
         CallsCanExecute(r) /\ state = OPEN /\ ~recSinceOpen =>
            IF now < openedAt + COOLDOWN_MS
            THEN Refused(r) /\ UNCHANGED breakerVars
            ELSE Admitted(r) /\ state' = HALF_OPEN]_vars

\* a probe admitted at the end of the cooldown, after a call before it
\* was refused, with no result recorded while OPEN
C2_Witness ==
    /\ state = HALF_OPEN
    /\ failCount = FAILURE_THRESHOLD
    /\ \E r \in Reqs : pc[r] = "ai" /\ admittedIn[r] = HALF_OPEN
                       /\ frame[r].due = now + AI_DELAY_MS
    /\ \E k \in 1..Len(FileRecords) : FileRecords[k].aiResult = "Service Busy"

(***************************************************************************)
(* C3.  As the specification states it: between the OPEN -> HALF_OPEN flip *)
(* and the recording of the probe's result at most one request is in its   *)
(* downstream call having been admitted in HALF_OPEN.                      *)
(***************************************************************************)
HalfOpenProbes == {r \in Reqs : pc[r] = "ai" /\ admittedIn[r] = HALF_OPEN}

C4_ProbeSettles ==
    [][\A r \in Reqs :
         RecordsResult(r) /\ state = HALF_OPEN =>
            IF frame[r].forceFail
            THEN /\ state' = OPEN
                 /\ nextAttempt' = now + COOLDOWN_MS
                 /\ failCount' = failCount
            ELSE /\ state' = CLOSED
                 /\ failCount' = 0]_vars

\* a failed probe has just re-opened the breaker with a fresh window
C4_Witness ==
    /\ state = OPEN
    /\ openedAt = now
    /\ now >= COOLDOWN_MS
    /\ nextAttempt = now + COOLDOWN_MS
    /\ failCount = FAILURE_THRESHOLD
    /\ consec > failCount

(***************************************************************************)
(* C5.  Every phase change of the breaker is one of CLOSED -> OPEN,        *)
(* OPEN -> HALF_OPEN, HALF_OPEN -> CLOSED, HALF_OPEN -> OPEN; the breaker  *)
(* never goes from OPEN directly to CLOSED.                                *)
(***************************************************************************)
AllowedTransitions ==
    { <<CLOSED, OPEN>>, <<OPEN, HALF_OPEN>>,
      <<HALF_OPEN, CLOSED>>, <<HALF_OPEN, OPEN>> }

C5_AllowedTransitions ==
    [][state' # state => <<state, state'>> \in AllowedTransitions]_vars

(***************************************************************************)
(* C6.  While the breaker is OPEN, nextAttempt is the time at which OPEN   *)
(* was entered plus COOLDOWN_MS.                                           *)
(***************************************************************************)
C6_WindowFromOpenEntry ==
    state = OPEN => nextAttempt = openedAt + COOLDOWN_MS

(***************************************************************************)
(* C7.  A valid request to which canExecute() returned false never starts  *)
(* mockAiCall (no timer is armed, no answer or error comes back) and the   *)
(* clock does not advance between its arrival and its response; the        *)
(* response is 200 with answer "Service Busy" and the breaker state read   *)
(* when canExecute() returned, and the audit record says "Service Busy".   *)
(***************************************************************************)
RefusedReqs == {r \in Reqs : admittedIn[r] = "refused"}

\* the records of request r queued or in the file
RecordsOf(r) ==
    {writeQueue[k].record : k \in {j \in 1..Len(writeQueue) :
                                       writeQueue[j].record.id = r}}
    \cup {FileRecords[k] : k \in {j \in 1..Len(FileRecords) :
                                      FileRecords[j].id = r}}

C7_RefusedSkipsDownstream ==
    /\ [](\A r \in RefusedReqs :
            /\ pc[r] \in {"audit", "resume", "done"}
            /\ frame[r].due = -1
            /\ frame[r].aiAnswer = ""
            /\ ~frame[r].errorOccurred
            /\ \A rec \in RecordsOf(r) : rec.aiResult = "Service Busy"
            /\ pc[r] = "done" =>
                 /\ res[r].status = 200
                 /\ res[r].answer = "Service Busy"
                 /\ res[r].circuitBreaker = decided[r]
                 /\ res[r].circuitBreaker = getState(Breaker))
    /\ [][(\E r \in RefusedReqs : pc[r] # "done") => now' = now]_vars
    /\ [][\A r \in Reqs : Refused(r) => UNCHANGED <<breakerVars, now>>]_vars

\* a refused request has been answered while an admitted one is still in
\* its downstream call
C7_Witness ==
    \E r \in RefusedReqs :
        /\ pc[r] = "done"
        /\ res[r].answer = "Service Busy"
        /\ res[r].circuitBreaker = [state |-> OPEN, failCount |-> FAILURE_THRESHOLD]
        /\ \E q \in Reqs : pc[q] = "ai"

(***************************************************************************)
(* C8.  As the specification states it: when the response of a valid       *)
(* request is sent, the file holds exactly one audit record of it.         *)
(***************************************************************************)
\* how many records of request r are in the file
InFile(r) == Occurrences(RecordIds(FileRecords), r)

C10_RecordHoldsRedactedAndEncrypted ==
    \A r \in Reqs :
        pc[r] \in {"audit", "resume", "done"} =>
            /\ (r \notin errLog => RecordsOf(r) # {})
            /\ \A rec \in RecordsOf(r) :
                 /\ rec.redactedMessage = sanitizeMessage(frame[r].message.chars)
                 /\ decrypt(key, rec.originalMessageEncrypted)
                        = frame[r].message.chars

\* the record of a failed downstream call on a message with an SSN is in
\* the file; the redaction has changed the message
C10_Witness ==
    \E r \in Reqs :
        /\ pc[r] = "done"
        /\ frame[r].branch = "normal"
        /\ frame[r].errorOccurred
        /\ InFile(r) = 1
        /\ \A rec \in RecordsOf(r) :
             /\ rec.redactedMessage # frame[r].message.chars
             /\ \E k \in 1..Len(rec.redactedMessage) :
                   rec.redactedMessage[k] = TagSSN

(***************************************************************************)
(* C11.  A request whose userId or message is missing, not a string,       *)
(* empty or whitespace only is rejected with status 400 and has no side    *)
(* effect: the breaker, the handler's locals (nothing redacted or          *)
(* encrypted, no timer), the audit file and queue and the call histories   *)
(* are unchanged by its step; so every request that gets past validation   *)
(* has a userId and a message that are strings with a non-blank character. *)
(***************************************************************************)
\* x is a string with at least one character that is not white space
NonBlankString(x) ==
    /\ x.type = "string"
    /\ \E k \in 1..Len(x.chars) : x.chars[k] \notin SpaceChars

\* this step is the handler of r returning at one of its validation checks
Rejects(r) == pc[r] = "new" /\ pc'[r] = "rejected"

C11_InvalidRejectedWithoutEffect ==
    /\ [](\A r \in Reqs :
            /\ pc[r] \in {"ai", "audit", "resume", "done"} =>
                 NonBlankString(frame[r].userId)
                 /\ NonBlankString(frame[r].message)
            /\ pc[r] = "rejected" =>
                 /\ res[r].status = 400
                 /\ res[r].error \in
                      {"userId is required and must be a non-empty string",
                       "message is required and must be a non-empty string"}
                 /\ frame[r] = NoFrame
                 /\ admittedIn[r] = "-"
                 /\ Occurrences(calls, r) = 0)
    /\ [][\A r \in Reqs : Rejects(r) =>
            UNCHANGED <<breakerVars, envVars, nextId, frame, auditVars,
                        historyVars>>]_vars

\* a request is rejected while the breaker is OPEN and the file has
\* records: neither has changed
C11_Witness ==
    \E r \in Reqs :
        /\ pc[r] = "rejected"
        /\ res[r].status = 400
        /\ state = OPEN
        /\ Len(FileRecords) >= FAILURE_THRESHOLD
        /\ Len(calls) = Len(FileRecords)

(***************************************************************************)
(* C12.  For a single request, redaction of the message and encryption of  *)
(* the original message complete before canExecute() is consulted: in the  *)
(* order of the calls of a handler, sanitizeMessage and encrypt come       *)
(* before canExecute.                                                      *)
(***************************************************************************)
\* the position of the call named x among the calls q; 0 when not made
Pos(q, x) ==
    IF \E k \in 1..Len(q) : q[k] = x
    THEN CHOOSE k \in 1..Len(q) : q[k] = x /\ \A j \in 1..(k - 1) : q[j] # x
    ELSE 0

\* the requests whose handler has got past validation and not returned
PastValidation == {r \in Reqs : pc[r] \in {"ai", "audit", "resume", "done"}}

C12_RedactEncryptBeforeDecision ==
    \A r \in PastValidation :
        /\ Pos(frame[r].ops, "sanitizeMessage") > 0
        /\ Pos(frame[r].ops, "encrypt") > 0
        /\ Pos(frame[r].ops, "sanitizeMessage") < Pos(frame[r].ops, "canExecute")
        /\ Pos(frame[r].ops, "encrypt") < Pos(frame[r].ops, "canExecute")

(***************************************************************************)
(* C13.  A request whose downstream call has settled has made exactly one  *)
(* breaker record call, recordFailure() if the call rejected and           *)
(* recordSuccess() if it resolved, and the breaker after its step is the   *)
(* breaker after that one call; a request whose call is pending, or was    *)
(* skipped because canExecute() returned false, or that failed validation, *)
(* has made none, and its step leaves failCount and nextAttempt as they    *)
(* were.  So the record calls are as many as the settled downstream calls. *)
(***************************************************************************)
\* how many of the calls q are breaker record calls
RecordCalls(q) ==
    Cardinality({k \in 1..Len(q) : q[k] \in {"recordSuccess", "recordFailure"}})

\* how many of the calls q are downstream calls
DownstreamCalls(q) == Cardinality({k \in 1..Len(q) : q[k] = "mockAiCall"})

C13_OneRecordCallPerAttempt ==
    /\ [](\A r \in Reqs :
            /\ pc[r] \in {"new", "rejected", "closed"} => frame[r].ops = <<>>
            /\ pc[r] = "ai" =>
                 DownstreamCalls(frame[r].ops) = 1 /\ RecordCalls(frame[r].ops) = 0
            /\ r \in RefusedReqs =>
                 DownstreamCalls(frame[r].ops) = 0 /\ RecordCalls(frame[r].ops) = 0
            /\ r \in PastValidation \ RefusedReqs /\ pc[r] # "ai" =>
                 /\ DownstreamCalls(frame[r].ops) = 1
                 /\ RecordCalls(frame[r].ops) = 1
                 /\ Pos(frame[r].ops, "mockAiCall")
                      < Pos(frame[r].ops, IF frame[r].errorOccurred
                                          THEN "recordFailure"
                                          ELSE "recordSuccess")
                 /\ frame[r].errorOccurred = frame[r].forceFail)
    /\ [][\A r \in Reqs :
            /\ RecordsResult(r) =>
                 <<state', failCount', nextAttempt'>> =
                    IF frame[r].forceFail
                    THEN LET cb == recordFailure(Breaker, now)
                         IN  <<cb.state, cb.failCount, cb.nextAttempt>>
                    ELSE LET cb == recordSuccess(Breaker)
                         IN  <<cb.state, cb.failCount, cb.nextAttempt>>
            /\ CallsCanExecute(r) \/ Rejects(r) =>
                 UNCHANGED <<failCount, nextAttempt, consec>>]_vars
    /\ [][(\A r \in Reqs : ~RecordsResult(r)) =>
            UNCHANGED <<failCount, nextAttempt, consec>>]_vars

\* a failed call has been recorded by its one recordFailure() while the
\* breaker was OPEN, after a request had been refused and recorded nothing
C13_Witness ==
    /\ state = OPEN
    /\ failCount = FAILURE_THRESHOLD + 1
    /\ \E r \in PastValidation :
         /\ pc[r] = "done"
         /\ frame[r].errorOccurred
         /\ RecordCalls(frame[r].ops) = 1
    /\ \E k \in 1..Len(FileRecords) : FileRecords[k].aiResult = "Service Busy"

(***************************************************************************)
(* C14.  The circuitState of a request's audit record and the breaker      *)
(* state of its response are one value: the breaker's state right after    *)
(* the request's own recordSuccess() / recordFailure() (executed path) or  *)
(* canExecute() (skipped path).  No other breaker operation comes between  *)
(* that step and the capture, nor before the response: from the capture    *)
(* to the response the captured value is the breaker's state.              *)
(***************************************************************************)
C14_StateCapturedAfterOwnStep ==
    \A r \in PastValidation :
        pc[r] # "ai" =>
            /\ frame[r].cbState = decided[r]
            /\ frame[r].cbState = getState(Breaker)
            /\ Pos(frame[r].ops, "getState") > 0
            /\ \A rec \in RecordsOf(r) :
                 rec.circuitState = frame[r].cbState.state
            /\ pc[r] = "done" =>
                 /\ res[r].circuitBreaker = frame[r].cbState
                 /\ \A rec \in RecordsOf(r) :
                      rec.circuitState = res[r].circuitBreaker.state

\* the request whose failure opened the breaker was admitted in CLOSED;
\* its record and its response say OPEN with failCount 3
C14_Witness ==
    \E r \in PastValidation :
        /\ pc[r] = "done"
        /\ admittedIn[r] = CLOSED
        /\ res[r].circuitBreaker =
               [state |-> OPEN, failCount |-> FAILURE_THRESHOLD]
        /\ InFile(r) = 1
        /\ \A rec \in RecordsOf(r) : rec.circuitState = OPEN

(***************************************************************************)
(* C15.  A downstream call that failed is not thrown to the caller: the    *)
(* handler has called recordFailure(), its audit record has aiResult       *)
(* "Error: AI call failed", and its response is the structured payload     *)
(* with status 503, answer "AI Service Unavailable" and the current        *)
(* breaker state.  The answer "Service Busy" is given to the requests that *)
(* canExecute() refused and to no others.                                  *)
(***************************************************************************)
FailedReqs == {r \in PastValidation : frame[r].errorOccurred}

C15_FailureBecomesResponse ==
    /\ \A r \in FailedReqs :
         /\ Pos(frame[r].ops, "recordFailure") > 0
         /\ Pos(frame[r].ops, "recordSuccess") = 0
         /\ \A rec \in RecordsOf(r) : rec.aiResult = "Error: AI call failed"
         /\ pc[r] = "done" =>
              /\ res[r].status = 503
              /\ res[r].error = ""
              /\ res[r].answer = "AI Service Unavailable"
              /\ res[r].userId = frame[r].userId
              /\ res[r].redactedMessage = frame[r].redactedMessage
              /\ res[r].circuitBreaker = getState(Breaker)
    /\ \A r \in Reqs :
         pc[r] = "done" => (res[r].answer = "Service Busy" <=> r \in RefusedReqs)
    /\ \A r \in PastValidation :
         pc[r] = "resume" /\ frame[r].branch = "normal" =>
             frame[r].forceFail = frame[r].errorOccurred

\* a single failure with the breaker still CLOSED has been answered
C15_Witness ==
    \E r \in FailedReqs :
        /\ pc[r] = "done"
        /\ res[r].answer = "AI Service Unavailable"
        /\ res[r].circuitBreaker = [state |-> CLOSED, failCount |-> 1]
        /\ InFile(r) = 1

(***************************************************************************)
(* C16.  On the executed path mockAiCall is given sanitizeMessage(message) *)
(* and not the original message: its argument, the redactedMessage of the  *)
(* response and the redactedMessage of the audit record are the same       *)
(* redacted text, and the record holds the original only encrypted (its    *)
(* ciphertext is not the message's bytes, and decrypts to the message).    *)
(***************************************************************************)
ExecutedReqs == {r \in PastValidation : frame[r].branch = "normal"}

C16_DownstreamGetsRedacted ==
    \A r \in ExecutedReqs :
        LET original == frame[r].message.chars
        IN  /\ Pos(frame[r].ops, "sanitizeMessage")
                 < Pos(frame[r].ops, "mockAiCall")
            /\ frame[r].aiArg = frame[r].redactedMessage
            /\ original = SsnMessage => frame[r].aiArg # original
            /\ \A rec \in RecordsOf(r) :
                 /\ rec.redactedMessage = frame[r].aiArg
                 /\ rec.originalMessageEncrypted = frame[r].encryptedMessage
                 /\ rec.originalMessageEncrypted.base64.ciphertext
                        # Utf8Encode(original)
            /\ pc[r] = "done" =>
                 /\ res[r].redactedMessage = frame[r].aiArg
                 /\ frame[r].aiArg = sanitizeMessage(original)
                 /\ decrypt(key, frame[r].encryptedMessage) = original

\* a message with an SSN went downstream redacted; the request has been
\* answered and its record written
C16_Witness ==
    \E r \in ExecutedReqs :
        /\ pc[r] = "done"
        /\ frame[r].message.chars = SsnMessage
        /\ frame[r].aiArg = <<"i", "d", " ", TagSSN>>
        /\ res[r].redactedMessage = <<"i", "d", " ", TagSSN>>
        /\ InFile(r) = 1

(***************************************************************************)
(* C17.  When the content read from the audit file cannot be parsed, the   *)
(* task takes the existing collection as empty and goes on: it completes   *)
(* without an error (nothing is caught or logged, the awaiting handler is  *)
(* resumed) and the file afterwards parses and holds exactly the one new   *)
(* record.                                                                 *)
(***************************************************************************)
\* the requests in progress whose task read an unparseable file and met no
\* storage error
RecoveredReqs == {r \in recovered \ errLog : pc[r] \in {"resume", "done"}}

C17_CorruptStoreStartsFresh ==
    \A r \in RecoveredReqs :
        /\ JsonParse(file).ok
        /\ Len(FileRecords) = 1
        /\ FileRecords[1].id = r
        /\ FileRecords[1].redactedMessage = frame[r].redactedMessage
        /\ FileRecords[1].originalMessageEncrypted = frame[r].encryptedMessage
        /\ Occurrences(QueuedIds, r) = 0

\* a failed write had left the file unparseable; the next request's task
\* has started afresh and its record is the only one
C17_Witness ==
    \E r \in RecoveredReqs :
        /\ pc[r] = "done"
        /\ faults = 1
        /\ Len(calls) >= 2
        /\ RecordIds(FileRecords) = <<r>>

(***************************************************************************)
(* C18.  Whenever a task recovers from an unparseable audit file by        *)
(* falling back to an empty collection, it reports the fault on the log    *)
(* channel: a request whose task found the file unparseable has a          *)
(* console.error of that task.                                             *)
(***************************************************************************)
C18_RecoveryIsLogged ==
    \A r \in Reqs :
        pc[r] \in {"resume", "done"} /\ r \in recovered => r \in errLog

(***************************************************************************)
(* C19.  A storage fault in an audit task (readFileSync or writeFileSync   *)
(* throws) does not abort the request and does not block the queue: the    *)
(* task is done and logged, the handler that awaited it is resumed and     *)
(* gives the response of its outcome (200 with the answer or "Service      *)
(* Busy", 503 with "AI Service Unavailable"), and the tasks queued behind  *)
(* it are still the later calls in their order, the first of them ready    *)
(* to run.                                                                 *)
(***************************************************************************)
\* the requests in progress whose task was ended by a storage error
FaultedReqs == {r \in errLog : pc[r] # "closed"}

\* the response the handler of r gives for its outcome
ExpectedResponse(r) ==
    IF frame[r].branch = "busy"
    THEN JsonResponse(200, frame[r].userId,
                      sanitizeMessage(frame[r].message.chars),
                      "Service Busy", decided[r])
    ELSE IF frame[r].forceFail
    THEN JsonResponse(503, frame[r].userId,
                      sanitizeMessage(frame[r].message.chars),
                      "AI Service Unavailable", decided[r])
    ELSE JsonResponse(200, frame[r].userId,
                      sanitizeMessage(frame[r].message.chars),
                      GeneratedAnswer, decided[r])

C19_FaultNeverAbortsNorBlocks ==
    /\ Cardinality(errLog) <= faults
    /\ \A r \in FaultedReqs :
         /\ pc[r] \in {"resume", "done"}
         /\ Occurrences(QueuedIds, r) = 0
         /\ InFile(r) = 0
         /\ pc[r] = "done" => res[r] = ExpectedResponse(r)
    /\ QueuedIds = SubSeq(calls, Len(calls) - Len(writeQueue) + 1, Len(calls))
    /\ writeQueue # <<>> => ENABLED RunWriteTask
    /\ \A r \in Reqs : pc[r] = "audit" => Occurrences(QueuedIds, r) = 1

\* the task of one request has thrown and the request has been answered;
\* the task of a later call has run after it and its record is in the file
C19_Witness ==
    \E r \in FaultedReqs : \E q \in Reqs :
        /\ pc[r] = "done"
        /\ res[r].status \in {200, 503}
        /\ Pos(calls, r) < Pos(calls, q)
        /\ InFile(q) = 1
        /\ pc[q] = "resume"

(***************************************************************************)
(* SpecSanitize: one request at a time goes through the pipeline with a    *)
(* message drawn from texts around the SSN rule: numbers of 8, 9 and 10    *)
(* digits, with and without dashes, and a dotted number, each with the     *)
(* texts that may stand before and after it.                               *)
(***************************************************************************)
SsnCores ==
    { <<"1", "2", "3", "4", "5", "6", "7", "8">>,
      <<"1", "2", "3", "4", "5", "6", "7", "8", "9">>,
      <<"1", "2", "3", "4", "5", "6", "7", "8", "9", "0">>,
      <<"1", "2", "3", "-", "4", "5", "-", "6", "7", "8", "9">>,
      <<"1", "2", "3", "-", "4", "5", "6", "7", "8", "9">>,
      <<"1", "2", "3", "4", "5", "-", "6", "7", "8", "9">>,
      <<"1", "2", "3", "-", "4", "5", "-", "6", "7", "8">>,
      <<"1", "2", "3", "-", "4", "5", "-", "6", "7", "8", "9", "0">>,
      <<"1", "2", "-", "3", "4", "5", "-", "6", "7", "8", "9">>,
      <<"1", "2", "7", ".", "0", ".", "0", ".", "1">> }

SsnPrefixes ==
    { <<>>, <<"i", "d", " ">>, <<"x">>, <<"_">>, <<"-">>, <<".">>, <<"1">> }

SsnSuffixes ==
    { <<>>, <<" ", "o", "k">>, <<"x">>, <<"_">>, <<"-">>, <<".">>, <<"7">>,
      <<" ", "1", "2", "3", "4", "5", "6", "7", "8", "9">> }

SanitizerRequests ==
    {[userId |-> ValidUserId, message |-> JsString(p \o c \o s),
      forceFail |-> FALSE] :
        p \in SsnPrefixes, c \in SsnCores, s \in SsnSuffixes}

ReceiveSanitize(r) ==
    /\ Quiescent
    /\ ReceiveStep(r, SanitizerRequests)

NextSanitize ==
    \/ \E r \in {1} : ReceiveSanitize(r)
    \/ \E r \in Reqs : AiSettle(r)
    \/ RunWriteTask
    \/ \E r \in Reqs : Respond(r)
    \/ \E r \in Reqs : Release(r)
    \/ Tick

SpecSanitize == Init /\ [][NextSanitize]_vars

(***************************************************************************)
(* The SSN rule as it is stated: the occurrences of a written form of an   *)
(* SSN that stand between word boundaries, replaced from left to right.    *)
(* A form is the sequence of its groups of digits, which dashes separate.  *)
(***************************************************************************)
FormNine == <<9>>
FormDashed == <<3, 2, 4>>
FormFirstDash == <<3, 6>>
FormSecondDash == <<5, 4>>

RECURSIVE SumGroups(_)
SumGroups(form) ==
    IF form = <<>> THEN 0 ELSE Head(form) + SumGroups(Tail(form))

\* the length of the text written in this form
FormLen(form) == SumGroups(form) + Len(form) - 1

\* the text from position i is written in this form
RECURSIVE WrittenAs(_, _, _)
WrittenAs(form, s, i) ==
    /\ \A k \in i..(i + Head(form) - 1) : k <= Len(s) /\ s[k] \in Digits
    /\ Len(form) > 1 =>
         /\ i + Head(form) <= Len(s)
         /\ s[i + Head(form)] = "-"
         /\ WrittenAs(Tail(form), s, i + Head(form) + 1)

\* no letter, digit or underscore stands right before i and right after
\* the n characters from i
Delimited(s, i, n) ==
    /\ i = 1 \/ s[i - 1] \notin WordChars
    /\ i + n > Len(s) \/ s[i + n] \notin WordChars

\* the length of the occurrence at i of one of the forms; 0 when none
OccurrenceLen(forms, s, i) ==
    LET found == {f \in forms : WrittenAs(f, s, i) /\ Delimited(s, i, FormLen(f))}
    IN  IF found = {} THEN 0 ELSE FormLen(CHOOSE f \in found : TRUE)

\* the text with every occurrence from position i on replaced by the tag
RECURSIVE RedactedFrom(_, _, _)
RedactedFrom(forms, s, i) ==
    IF i > Len(s) THEN <<>>
    ELSE LET n == OccurrenceLen(forms, s, i)
         IN  IF n > 0
             THEN <<TagSSN>> \o RedactedFrom(forms, s, i + n)
             ELSE <<s[i]>> \o RedactedFrom(forms, s, i + 1)

(***************************************************************************)
(* C20.  As the specification states it: sanitizeMessage replaces by       *)
(* <REDACTED: SSN> exactly the runs of 9 digits between word boundaries    *)
(* that are written as 9 contiguous digits or as 3-2-4 with dashes, and    *)
(* leaves all other text unchanged.                                        *)
(***************************************************************************)
C20_SsnNineOrDashed ==
    \A r \in PastValidation :
        frame[r].redactedMessage =
            RedactedFrom({FormNine, FormDashed}, frame[r].message.chars, 1)

(***************************************************************************)
(* C20, as the code has it: each of the two dashes is optional on its own, *)
(* so the 9 digits are redacted when written as 123456789, 123-45-6789,    *)
(* 123-456789 or 12345-6789, between word boundaries; every such           *)
(* occurrence is replaced by <REDACTED: SSN>, all text outside the         *)
(* occurrences is unchanged, and a number of 8 digits, a number of 10      *)
(* digits and a dotted number such as 127.0.0.1 are unchanged.             *)
(***************************************************************************)
SsnForms == {FormNine, FormDashed, FormFirstDash, FormSecondDash}

\* the texts the rule must leave as they are
NotSsn ==
    { <<"1", "2", "3", "4", "5", "6", "7", "8">>,
      <<"1", "2", "3", "4", "5", "6", "7", "8", "9", "0">>,
      <<"1", "2", "3", "-", "4", "5", "-", "6", "7", "8">>,
      <<"1", "2", "3", "-", "4", "5", "-", "6", "7", "8", "9", "0">>,
      <<"1", "2", "7", ".", "0", ".", "0", ".", "1">> }

C20_SsnNineDigitsOptionalDashes ==
    \A r \in PastValidation :
        LET message == frame[r].message.chars
        IN  /\ frame[r].redactedMessage = RedactedFrom(SsnForms, message, 1)
            /\ message \in NotSsn => frame[r].redactedMessage = message
            /\ \A rec \in RecordsOf(r) :
                 rec.redactedMessage = RedactedFrom(SsnForms, message, 1)

\* two SSNs in one message, dashed and contiguous, both replaced, the text
\* around them kept
C20_Witness ==
    \E r \in PastValidation :
        /\ pc[r] = "done"
        /\ frame[r].message.chars =
              <<"i", "d", " ", "1", "2", "3", "-", "4", "5", "-", "6", "7",
                "8", "9", " ", "1", "2", "3", "4", "5", "6", "7", "8", "9">>
        /\ res[r].redactedMessage = <<"i", "d", " ", TagSSN, " ", TagSSN>>

(***************************************************************************)
(* SpecBreaker: the three operations of the breaker called in any order    *)
(* and at any time, as a caller other than the route handler may call      *)
(* them, with the clock advancing between the calls.                       *)
(***************************************************************************)
\* what a call on the breaker leaves alone
BreakerCallFrame ==
    UNCHANGED <<envVars, handlerVars, auditVars, admittedIn, decided>>

BreakerCanExecute ==
    LET c == canExecute(Breaker, now)
    IN  /\ SetBreaker(c.cb)
        /\ TrackOpen(c.cb, FALSE)
        /\ UNCHANGED consec
        /\ BreakerCallFrame

BreakerRecordSuccess ==
    LET cb2 == recordSuccess(Breaker)
    IN  /\ SetBreaker(cb2)
        /\ TrackOpen(cb2, TRUE)
        /\ consec' = 0
        /\ BreakerCallFrame

BreakerRecordFailure ==
    /\ failCount < MaxFailCount
    /\ LET cb2 == recordFailure(Breaker, now)
       IN  /\ SetBreaker(cb2)
           /\ TrackOpen(cb2, TRUE)
           /\ consec' = consec + 1
           /\ BreakerCallFrame

BreakerClock ==
    /\ \E d \in {AI_DELAY_MS, COOLDOWN_MS} :
         /\ now + d <= MaxNow
         /\ now' = now + d
    /\ UNCHANGED <<breakerVars, key, seed, handlerVars, auditVars,
                   historyVars>>

NextBreaker ==
    \/ BreakerCanExecute
    \/ BreakerRecordSuccess
    \/ BreakerRecordFailure
    \/ BreakerClock

SpecBreaker == Init /\ [][NextBreaker]_vars

(***************************************************************************)
(* C21.  In every reachable state of the breaker, whatever the order of    *)
(* the canExecute(), recordSuccess() and recordFailure() calls, the state  *)
(* is CLOSED exactly when failCount < FAILURE_THRESHOLD: failCount is 0,   *)
(* 1 or 2 while CLOSED and at least 3 while OPEN or HALF_OPEN, and it is   *)
(* 0 right after every transition to CLOSED.                               *)
(***************************************************************************)
C21_ClosedIffBelowThreshold ==
    /\ [](/\ state \in {CLOSED, OPEN, HALF_OPEN}
          /\ failCount >= 0
          /\ state = CLOSED <=> failCount < FAILURE_THRESHOLD)
    /\ [][state # CLOSED /\ state' = CLOSED => failCount' = 0]_vars

\* the breaker has been OPEN, was closed by a success and has counted two
\* new failures since
C21_Witness ==
    /\ state = CLOSED
    /\ failCount = FAILURE_THRESHOLD - 1
    /\ nextAttempt >= COOLDOWN_MS
    /\ now >= nextAttempt

(***************************************************************************)
(* SpecLive: the event loop of Spec under fair scheduling, with            *)
(* MaxLiveRequests requests passing validation.  The event loop runs every *)
(* promise reaction that is ready (the queued audit task, the handler      *)
(* resuming after its await, the handler returning), so these are weakly   *)
(* fair.  The clock advances and a timer that is due fires although        *)
(* requests may arrive in between, and requests that pass validation keep  *)
(* arriving among those that do not: these are strongly fair, since each   *)
(* arrival holds the others back for the length of its synchronous part.   *)
(***************************************************************************)
ReceiveLive(r) == r <= MaxLiveRequests /\ Receive(r)

\* a request that passes validation arrives
ReceiveValid(r) ==
    /\ r <= MaxLiveRequests
    /\ Quiescent
    /\ ReceiveStep(r, ValidRequests)

NextLive ==
    \/ \E r \in Reqs : ReceiveLive(r)
    \/ \E r \in Reqs : AiSettle(r)
    \/ RunWriteTask
    \/ \E r \in Reqs : Respond(r)
    \/ \E r \in Reqs : Release(r)
    \/ Tick
    \/ CooldownElapses

FairScheduling ==
    /\ WF_vars(RunWriteTask)
    /\ \A r \in Reqs : WF_vars(Respond(r))
    /\ \A r \in Reqs : WF_vars(Release(r))
    /\ SF_vars(Tick)
    /\ SF_vars(CooldownElapses)
    /\ \A r \in Reqs : SF_vars(AiSettle(r))
    /\ SF_vars(\E r \in Reqs : ReceiveValid(r))

SpecLive == Init /\ [][NextLive]_vars /\ FairScheduling

\* a downstream call that will reject is in flight
FailingCallInFlight == \E r \in InCall : frame[r].forceFail

\* a request is still to arrive
RequestToCome == nextId <= MaxLiveRequests

(***************************************************************************)
(* C22.  The breaker does not stay open forever: once it is OPEN, the      *)
(* cooldown has elapsed and a request is still to come, it eventually is   *)
(* CLOSED with failCount 0 unless another downstream call fails; and       *)
(* every request that has passed validation eventually has its response:   *)
(* a handler leaves its awaits only by responding, so this is that again   *)
(* and again no handler is at an await, and every handler that is done     *)
(* has sent a response.                                                    *)
(***************************************************************************)
\* the requests past validation whose handler is at an await or about to
\* respond
AwaitingResponse == {r \in Reqs : pc[r] \in {"ai", "audit", "resume"}}

C22_EventuallyClosedAndAnswered ==
    /\ (state = OPEN /\ now >= nextAttempt /\ RequestToCome)
         ~> (\/ state = CLOSED /\ failCount = 0
             \/ FailingCallInFlight)
    /\ []<>(AwaitingResponse = {})
    /\ [][\A r \in AwaitingResponse :
             pc'[r] # pc[r] /\ pc'[r] \notin {"audit", "resume"}
                 => pc'[r] = "done" /\ res'[r] # NoResponse]_vars

\* the probe admitted after the cooldown has succeeded and closed the
\* breaker, and its handler has responded
C22_Witness ==
    \E r \in Reqs :
        /\ pc[r] = "done"
        /\ admittedIn[r] = HALF_OPEN
        /\ ~frame[r].forceFail
        /\ res[r] # NoResponse
        /\ state = CLOSED
        /\ failCount = 0

=============================================================================
